---- MODULE Spec2Model ----
(***************************************************************************)
(* Persistence layer of book_library, src/src/database/db.py, and the      *)
(* scripts that drive it: populate_books.py and populate_authors.py.       *)
(* The connection of the Database object and the embeddings are modelled.  *)
(*                                                                         *)
(* The sqlite database is modelled by two copies of its tables: `db` is    *)
(* what the open connection sees (committed rows plus the writes of the    *)
(* transaction in progress) and `committed` is what is durably stored.     *)
(* A table is the sequence of its rows in insertion (rowid) order.         *)
(* Optional[T] is a set with at most one element: None is {} and a value v *)
(* is {v}.  A name is a sequence of one-character strings, so that         *)
(* str.strip() is computed and not assumed.                                *)
(***************************************************************************)
EXTENDS Integers, Sequences, FiniteSets, TLC

VARIABLES
    db,         \* tables as seen through self.conn (uncommitted writes included)
    committed,  \* tables as committed to the database file
    nextId,     \* source of fresh identifiers, stands for uuid.uuid4()
    result,     \* return value of the last call
    last,       \* history: the last call (operation, arguments, failure, state before)
    hist,       \* history: the add_book calls that returned an id, in order
    work,       \* input consumed so far: one per call, one per name or field passed
    enrich,     \* populate_authors: its loop and the history of its runs
    batch,      \* add_books_from_isbn_list: its loop and the history of its runs
    flow,       \* history: the last step of an import script, the query texts issued
    conns,      \* the add_book calls of two more connections to the database file
    self        \* the Database object: its conn, the connections it has opened
                \* that are open, the callers inside a `with` block

\* the state of the scripts that drive the database
flows == <<enrich, batch, flow, conns, self>>

vars == <<db, committed, nextId, result, last, hist, work, flows>>

-----------------------------------------------------------------------------
(* Bounds of the model *)

\* the size of the input of a run: calls made plus names and fields passed
MaxWork == 4

-----------------------------------------------------------------------------
(* Optional values and Python truthiness *)

None == {}
Some(v) == {v}
The(o) == CHOOSE v \in o : TRUE

\* `not s` for an Optional[str]: None and "" are falsy
Truthy(o) == o # None /\ The(o) # ""

Range(s) == {s[i] : i \in 1..Len(s)}

-----------------------------------------------------------------------------
(* str.strip(): leading and trailing whitespace removed *)

Whitespace == {" "}

RECURSIVE lstrip(_)
lstrip(s) ==
    IF s = <<>> THEN s
    ELSE IF Head(s) \in Whitespace THEN lstrip(Tail(s)) ELSE s

RECURSIVE rstrip(_)
rstrip(s) ==
    IF s = <<>> THEN s
    ELSE IF s[Len(s)] \in Whitespace THEN rstrip(SubSeq(s, 1, Len(s) - 1)) ELSE s

strip(s) == rstrip(lstrip(s))

-----------------------------------------------------------------------------
(* Inputs *)

\* an ISBN is a string of characters, as typed by the caller: digits and a backslash
ISBNs == { <<"1">>, <<"\\">> }
Titles == {None, Some(""), Some("Dune")}

AuthorNames == { <<"a">>, <<" ", "a">>, <<"A">>, <<" ">> }
CategoryNames == { <<"c">>, <<"c", " ">>, <<>> }

\* Optional[list[str]]: the lists of n names of S
Lists(S, n) == {Some(l) : l \in [1..n -> S]}

\* GoogleBookSlimResponse, the fields add_book reads: the records with n names.
\* A record without authors carries None, one without categories an empty list.
Records(n) ==
    UNION {[isbn : ISBNs, title : Titles,
            authors : IF k = 0 THEN {None} ELSE Lists(AuthorNames, k),
            categories : Lists(CategoryNames, n - k)] : k \in 0..n}

-----------------------------------------------------------------------------
(* The schema: create_tables *)

EmptyTables ==
    [books |-> <<>>, authors |-> <<>>, categories |-> <<>>,
     book_authors |-> <<>>, book_categories |-> <<>>, book_embeddings |-> <<>>]

BioFields == {"birth_date", "death_date", "nationality", "sex", "bio", "author_link"}

AuthorRow(id, name, bio) ==
    [id |-> id, name |-> name,
     birth_date |-> bio.birth_date, death_date |-> bio.death_date,
     nationality |-> bio.nationality, sex |-> bio.sex,
     bio |-> bio.bio, author_link |-> bio.author_link]

NoBio == [f \in BioFields |-> None]

-----------------------------------------------------------------------------
(* A cursor at work: the tables it sees, the tables committed, the          *)
(* identifiers drawn so far, the number of statements executed and whether  *)
(* one of them raised.                                                      *)

Cursor(tables, stored, id) ==
    [db |-> tables, durable |-> stored, nextId |-> id, n |-> 0, err |-> FALSE]

\* cursor.execute / conn.commit: the statement counts, and raises when it is
\* the one the storage fails on
Execute(st, failAt) == [st EXCEPT !.n = @ + 1, !.err = (st.n + 1 = failAt)]

\* sqlite3.IntegrityError raised by a statement
Raise(st) == [st EXCEPT !.err = TRUE]

\* "SELECT id FROM <table> WHERE name = ?" followed by fetchone()
FetchOneByName(rows, name) ==
    LET hits == {i \in 1..Len(rows) : rows[i].name = name}
    IN IF hits = {} THEN None
       ELSE Some(rows[CHOOSE i \in hits : \A j \in hits : i <= j].id)

-----------------------------------------------------------------------------
(* The Database object and its connection.  A connection is named by a      *)
(* number; `open` holds the connections the object has opened and that are  *)
(* open, `inside` the callers that are inside a `with db:` block, `rows`    *)
(* what the last run_query or get_embeddings returned.                      *)

\* the callers that share the object
Callers == {1, 2}

\* sqlite3.connect(...): a connection that is not open yet
NewConnection(o) == CHOOSE id \in 1..(Cardinality(o.open) + 1) : id \notin o.open

\* connect(): self.conn is assigned a new connection, whatever it held
connect(o) ==
    LET id == NewConnection(o)
    IN [o EXCEPT !.conn = Some(id), !.open = @ \cup {id}]

\* the connection is closed and self.conn keeps referring to it
CloseOnly(o) == [o EXCEPT !.open = @ \ o.conn]

\* disconnect(): "if self.conn:" the connection is closed and self.conn is None
disconnect(o) ==
    IF o.conn = None THEN o
    ELSE [o EXCEPT !.conn = None, !.open = @ \ o.conn]

\* __init__: "self.conn = None" and "self.connect()"
Constructed == connect([conn |-> None, open |-> {}, inside |-> {}, rows |-> None])

-----------------------------------------------------------------------------
(* add_book and its helpers *)

uuid4(st) == st.nextId
Drawn(st) == [st EXCEPT !.nextId = @ + 1]

\* "INSERT OR REPLACE INTO books ...": a stored row with the ISBN gives way
InsertOrReplaceBook(st, book_id, book, failAt) ==
    LET s1 == Execute(st, failAt)
        rows == s1.db.books
        row == [id |-> book_id, title |-> book.title, isbn |-> book.isbn]
        Kept(r) == r.id # book_id /\ r.isbn # book.isbn
    IN IF st.err \/ s1.err \/ book.title = None THEN s1
       ELSE [s1 EXCEPT !.db.books = Append(SelectSeq(rows, Kept), row)]

\* the same statement on a books table whose isbn column is not UNIQUE
InsertBookNoUnique(st, book_id, book, failAt) ==
    LET s1 == Execute(st, failAt)
        rows == s1.db.books
        conflict == book.title = None \/ \E i \in 1..Len(rows) : rows[i].id = book_id
        row == [id |-> book_id, title |-> book.title, isbn |-> book.isbn]
    IN IF st.err \/ s1.err \/ conflict THEN s1
       ELSE [s1 EXCEPT !.db.books = Append(rows, row)]

\* "INSERT OR IGNORE INTO books ...": the row is skipped when it violates
\* PRIMARY KEY (id), NOT NULL (title, isbn) or UNIQUE (isbn)
_insert_book(st, book_id, book, failAt) ==
    LET s1 == Execute(st, failAt)
        rows == s1.db.books
        conflict ==
            \/ book.title = None
            \/ \E i \in 1..Len(rows) : rows[i].id = book_id \/ rows[i].isbn = book.isbn
        row == [id |-> book_id, title |-> book.title, isbn |-> book.isbn]
    IN IF st.err \/ s1.err \/ conflict THEN s1
       ELSE [s1 EXCEPT !.db.books = Append(rows, row)]

\* "INSERT INTO authors (id, name) VALUES (?, ?)" and its categories twin:
\* PRIMARY KEY (id) and UNIQUE (name) raise sqlite3.IntegrityError
InsertNamed(st, table, row, failAt) ==
    LET s1 == Execute(st, failAt)
        rows == s1.db[table]
        conflict == \E i \in 1..Len(rows) : rows[i].id = row.id \/ rows[i].name = row.name
    IN IF s1.err THEN s1
       ELSE IF conflict THEN Raise(s1)
       ELSE [s1 EXCEPT !.db[table] = Append(rows, row)]

\* the link tables have a PRIMARY KEY over the pair
InsertLinkNoKey(rows, row) == Append(rows, row)

\* "INSERT OR IGNORE INTO book_authors / book_categories"
InsertOrIgnoreLink(rows, row) ==
    IF \E i \in 1..Len(rows) : rows[i] = row THEN rows ELSE Append(rows, row)

InsertLink(st, table, row, failAt) ==
    LET s1 == Execute(st, failAt)
    IN IF s1.err THEN s1
       ELSE [s1 EXCEPT !.db[table] = InsertOrIgnoreLink(s1.db[table], row)]

CleanNameUnstripped(original_name) == original_name

\* clean_name = original_name.strip()
CleanName(original_name) == strip(original_name)

\* one turn of the loop of _handle_authors
HandleAuthor(st, book_id, original_name, failAt) ==
    LET clean_name == CleanName(original_name)
        s1 == Execute(st, failAt)
        author_id_row == FetchOneByName(s1.db.authors, clean_name)
        author_id == IF author_id_row # None THEN The(author_id_row) ELSE uuid4(s1)
        s2 == IF author_id_row # None THEN s1
              ELSE InsertNamed(Drawn(s1), "authors",
                               AuthorRow(author_id, clean_name, NoBio), failAt)
    IN IF s1.err THEN s1
       ELSE IF s2.err THEN s2
       ELSE InsertLink(s2, "book_authors",
                       [book_id |-> book_id, author_id |-> author_id], failAt)

RECURSIVE AuthorsLoop(_, _, _, _)
AuthorsLoop(st, book_id, names, failAt) ==
    IF names = <<>> \/ st.err THEN st
    ELSE AuthorsLoop(HandleAuthor(st, book_id, Head(names), failAt),
                     book_id, Tail(names), failAt)

_handle_authors(st, book_id, authors, failAt) ==
    IF st.err \/ authors = None \/ The(authors) = <<>> THEN st
    ELSE AuthorsLoop(st, book_id, The(authors), failAt)

\* one turn of the loop of _handle_categories: the name is used as given
HandleCategory(st, book_id, category_name, failAt) ==
    LET s1 == Execute(st, failAt)
        category_id_row == FetchOneByName(s1.db.categories, category_name)
        category_id == IF category_id_row # None THEN The(category_id_row) ELSE uuid4(s1)
        s2 == IF category_id_row # None THEN s1
              ELSE InsertNamed(Drawn(s1), "categories",
                               [id |-> category_id, name |-> category_name], failAt)
    IN IF s1.err THEN s1
       ELSE IF s2.err THEN s2
       ELSE InsertLink(s2, "book_categories",
                       [book_id |-> book_id, category_id |-> category_id], failAt)

RECURSIVE CategoriesLoop(_, _, _, _)
CategoriesLoop(st, book_id, names, failAt) ==
    IF names = <<>> \/ st.err THEN st
    ELSE CategoriesLoop(HandleCategory(st, book_id, Head(names), failAt),
                        book_id, Tail(names), failAt)

_handle_categories(st, book_id, categories, failAt) ==
    IF st.err \/ categories = None \/ The(categories) = <<>> THEN st
    ELSE CategoriesLoop(st, book_id, The(categories), failAt)

TitleNotNone(title) == title # None

\* "if not book.title": the record is refused before any statement runs
HasTitle(title) == Truthy(title)

\* a commit put off to the end of the batch
CommitDeferred(st, failAt) == Execute(st, failAt)

\* self.conn.commit(): what the connection sees becomes durable
CommitNow(st, failAt) ==
    LET s1 == Execute(st, failAt)
    IN IF s1.err THEN s1 ELSE [s1 EXCEPT !.durable = s1.db]

\* the statements of add_book that write: the book, its authors, its categories
AddBookWrites(st, book_id, book, failAt) ==
    LET s1 == _insert_book(st, book_id, book, failAt)
        s2 == _handle_authors(s1, book_id, book.authors, failAt)
    IN _handle_categories(s2, book_id, book.categories, failAt)

\* the try block of add_book up to and including self.conn.commit()
AddBookBody(tables, stored, id, book, failAt) ==
    LET st == Cursor(tables, stored, id)
        book_id == uuid4(st)
        s3 == AddBookWrites(Drawn(st), book_id, book, failAt)
    IN IF s3.err THEN s3 ELSE CommitNow(s3, failAt)

KeepPending(view, stored) == view

\* self.conn.rollback(): the connection sees the committed tables again
Rollback(view, stored) == stored

\* history of a call: stmts counts the statements an add_book executed, args
\* are the arguments of an add_author that did not raise, or those of a call
\* that stores or reads embeddings
Call(op, title, args, end) ==
    [op |-> op, title |-> title, args |-> args, failed |-> end.err,
     stmts |-> IF op = "add_book" THEN end.n ELSE 0, pre |-> committed]

add_book(book, failAt) ==
    IF self.conn = None \/ ~HasTitle(book.title)
    THEN /\ result' = None
         /\ last' = Call("add_book", book.title, None, Cursor(db, committed, nextId))
         /\ UNCHANGED <<db, committed, nextId, hist>>
    ELSE \E end \in {AddBookBody(db, committed, nextId, book, failAt)} :
         LET book_id == nextId
         IN /\ nextId' = end.nextId
            /\ last' = Call("add_book", book.title, None, end)
            /\ committed' = end.durable
            /\ IF end.err
               THEN /\ db' = Rollback(end.db, end.durable)
                    /\ result' = None
                    /\ UNCHANGED hist
               ELSE /\ db' = end.db
                    /\ result' = Some(book_id)
                    /\ hist' = Append(hist, [id |-> book_id, book |-> book])

\* failAt = 0: the storage does not fail; failAt = k: the k-th statement the
\* call executes (the commit is the last one) raises sqlite3.Error
BookFailPoints(book) ==
    IF self.conn # None /\ Truthy(book.title) THEN 0..AddBookBody(db, committed, nextId, book, 0).n ELSE {0}

\* no script is in the middle of its loop: the process is free to make a call
Idle == enrich.status # "running" /\ batch.status \notin {"running", "interrupted"}

AddBook ==
    \E n \in 0..(MaxWork - work - 1) :
        /\ Idle
        /\ UNCHANGED flows
        /\ work' = work + 1 + n
        /\ \E book \in Records(n) : \E failAt \in BookFailPoints(book) :
              add_book(book, failAt)

-----------------------------------------------------------------------------
(* add_author and its helpers *)

BioValues == {"v1", "v2"}

\* the six optional keyword arguments of add_author, n of them given
BioArgs(n) ==
    UNION {{[f \in BioFields |-> IF f \in given THEN Some(val[f]) ELSE None] :
                val \in [given -> BioValues]} :
           given \in {g \in SUBSET BioFields : Cardinality(g) = n}}

\* identifiers no uuid4() call returns: those a caller makes up
CallerIds == {0}

\* author_id as callers pass it: None, an id of their own, or the id of a stored author
AuthorIdArgs ==
    {None} \cup {Some(id) : id \in CallerIds}
           \cup {Some(db.authors[i].id) : i \in 1..Len(db.authors)}

\* names as callers pass them: that of an imported author and one that differs
\* from it by whitespace
AuthorArgNames == { <<"a">>, <<" ", "a">> }

AuthorArgs(n) ==
    [author_id : AuthorIdArgs, name : AuthorArgNames, bio : BioArgs(n)]

\* "SELECT id FROM authors WHERE id = ?" followed by fetchone()
FetchOneById(rows, id) ==
    IF \E i \in 1..Len(rows) : rows[i].id = id THEN Some(id) ELSE None

\* _find_existing_author: <<cursor afterwards, Optional id>>
_find_existing_author(st, author_id, name, failAt) ==
    LET s1 == Execute(st, failAt)
        by_id == FetchOneById(s1.db.authors, author_id)
        s2 == Execute(s1, failAt)
        by_name == FetchOneByName(s2.db.authors, name)
    IN IF s1.err THEN <<s1, None>>
       ELSE IF by_id # None THEN <<s1, by_id>>
       ELSE IF s2.err THEN <<s2, None>>
       ELSE <<s2, by_name>>

NameOnly(name, bio) == [k \in {"name"} |-> Some(name)]

Passed(name, bio) ==
    [k \in {"name"} \cup BioFields |-> IF k = "name" THEN Some(name) ELSE bio[k]]

AllColumns(name, bio) == Passed(name, bio)

\* the dict comprehension of _update_author: the arguments that are not None
UpdateFields(name, bio) ==
    LET passed == Passed(name, bio)
    IN [k \in {k \in DOMAIN passed : passed[k] # None} |-> passed[k]]

\* "UPDATE authors SET <fields> WHERE id = ?": UNIQUE (name) raises IntegrityError
UpdateAuthorRow(st, author_id, fields, failAt) ==
    LET s1 == Execute(st, failAt)
        rows == s1.db.authors
        clash ==
            /\ "name" \in DOMAIN fields
            /\ \E i \in 1..Len(rows) :
                   rows[i].id # author_id /\ rows[i].name = The(fields["name"])
        Set(row) ==
            [c \in DOMAIN row |->
                IF c \in DOMAIN fields
                THEN (IF c = "name" THEN The(fields[c]) ELSE fields[c])
                ELSE row[c]]
    IN IF s1.err THEN s1
       ELSE IF clash THEN Raise(s1)
       ELSE [s1 EXCEPT !.db.authors =
                [i \in 1..Len(rows) |->
                    IF rows[i].id = author_id THEN Set(rows[i]) ELSE rows[i]]]

\* the UPDATE without the commit that follows it
UpdateWithoutCommit(st, author_id, name, bio, failAt) ==
    LET fields == UpdateFields(name, bio)
    IN IF DOMAIN fields = {} THEN st
       ELSE UpdateAuthorRow(st, author_id, fields, failAt)

_update_author(st, author_id, name, bio, failAt) ==
    LET fields == UpdateFields(name, bio)
        s1 == UpdateAuthorRow(st, author_id, fields, failAt)
    IN IF DOMAIN fields = {} THEN st
       ELSE IF s1.err THEN s1
       ELSE CommitNow(s1, failAt)

InsertIdAndName(st, author_id, name, bio, failAt) ==
    LET s1 == InsertNamed(st, "authors", AuthorRow(author_id, name, NoBio), failAt)
    IN IF s1.err THEN s1 ELSE CommitNow(s1, failAt)

_insert_new_author(st, author_id, name, bio, failAt) ==
    LET s1 == InsertNamed(st, "authors", AuthorRow(author_id, name, bio), failAt)
    IN IF s1.err THEN s1 ELSE CommitNow(s1, failAt)

\* the try block of add_author: <<cursor afterwards, id to return>>
AddAuthorBody(tables, stored, id, args, failAt) ==
    LET st0 == Cursor(tables, stored, id)
        st == IF args.author_id # None THEN st0 ELSE Drawn(st0)
        author_id == IF args.author_id # None THEN The(args.author_id) ELSE uuid4(st0)
        found == _find_existing_author(st, author_id, args.name, failAt)
        existing_id == found[2]
    IN IF found[1].err THEN <<found[1], None>>
       ELSE IF existing_id # None
            THEN <<_update_author(found[1], The(existing_id), args.name, args.bio, failAt),
                   existing_id>>
            ELSE <<_insert_new_author(found[1], author_id, args.name, args.bio, failAt),
                   Some(author_id)>>

add_author(args, failAt) ==
    IF self.conn = None
    THEN /\ result' = None
         /\ last' = Call("add_author", None, Some(args), Cursor(db, committed, nextId))
         /\ UNCHANGED <<db, committed, nextId, hist>>
    ELSE \E out \in {AddAuthorBody(db, committed, nextId, args, failAt)} :
         LET end == out[1]
         IN /\ nextId' = end.nextId
            /\ last' = Call("add_author", None, IF end.err THEN None ELSE Some(args), end)
            /\ committed' = end.durable
            /\ db' = IF end.err THEN Rollback(end.db, end.durable) ELSE end.db
            /\ result' = IF end.err THEN None ELSE out[2]
            /\ UNCHANGED hist

AuthorFailPoints(args) ==
    IF self.conn # None THEN 0..AddAuthorBody(db, committed, nextId, args, 0)[1].n ELSE {0}

AddAuthor ==
    \E n \in 0..(MaxWork - work - 1) :
        /\ Idle
        /\ UNCHANGED flows
        /\ n <= Cardinality(BioFields)
        /\ work' = work + 1 + n
        /\ \E args \in AuthorArgs(n) : \E failAt \in AuthorFailPoints(args) :
              add_author(args, failAt)

-----------------------------------------------------------------------------
(* populate_authors: the enrichment pass *)

\* before the first run
NoEnrich ==
    [status |-> "idle", todo |-> <<>>, run |-> 0, after1 |-> <<>>, looked |-> <<>>, at |-> 0]

SelectAll(rows) == [i \in 1..Len(rows) |-> [id |-> rows[i].id, name |-> rows[i].name]]

\* "SELECT id, name from authors where sex is null"
AuthorsToFill(rows) ==
    LET SexIsNull(r) == r.sex = None
    IN SelectAll(SelectSeq(rows, SexIsNull))

\* a run is the second of two in succession when the first has completed and
\* the authors table is as that run left it
SecondRun == enrich.status = "done" /\ enrich.run = 1 /\ committed.authors = enrich.after1

\* the end of the loop: the run is over; the first of two runs leaves its
\* result, and `at` is the input consumed when the run ended
RunDone(e) ==
    IF e.todo # <<>> THEN e
    ELSE [e EXCEPT !.status = "done", !.at = work',
                   !.after1 = IF e.run = 1 THEN committed'.authors ELSE @]

\* populate_authors up to its loop: the query, and the return when it finds nothing
StartPopulate ==
    /\ Idle
    /\ UNCHANGED <<db, committed, nextId, result, last, hist, work>>
    /\ UNCHANGED <<batch, flow, conns, self>>
    /\ enrich' = RunDone([status |-> "running",
                          todo |-> AuthorsToFill(db.authors),
                          run |-> IF SecondRun THEN 2 ELSE 1,
                          after1 |-> IF SecondRun THEN enrich.after1 ELSE <<>>,
                          looked |-> <<>>, at |-> 0])

\* AuthorInfo as author_info_agent returns it, n of its fields given: the
\* answers that give the sex, which the query tests, a birth date, or both
AuthorInfos(n) ==
    {info \in BioArgs(n) : \A f \in BioFields \ {"sex", "birth_date"} : info[f] = None}

\* one turn of the loop: the agent is asked, then add_author is called with the
\* id and the name of the row and the fields of the answer; `looked` records
\* the answers of the calls that returned the id
PopulateAuthor ==
    /\ enrich.status = "running"
    /\ UNCHANGED <<batch, flow, conns, self>>
    /\ LET author == Head(enrich.todo)
           rest == [enrich EXCEPT !.todo = Tail(@)]
       IN \/ \* author_info_agent.run_sync raises: logged, next author
             /\ UNCHANGED <<db, committed, nextId, result, last, hist, work>>
             /\ enrich' = RunDone(rest)
          \/ \E n \in 0..(MaxWork - work) :
                /\ work' = work + n
                /\ \E author_info \in AuthorInfos(n) :
                    LET args == [author_id |-> Some(author.id), name |-> author.name,
                                 bio |-> author_info]
                    IN \E failAt \in AuthorFailPoints(args) :
                          /\ add_author(args, failAt)
                          /\ enrich' = RunDone(
                                [rest EXCEPT !.looked =
                                    IF result' = None THEN @
                                    ELSE Append(@, [id |-> author.id, info |-> author_info])])

-----------------------------------------------------------------------------
(* populate_books: what the book-info fetcher and the summary agent return *)

FetchedAuthorNames == { <<"a">> }
FetchedCategoryNames == { <<"c">> }

\* get_book_info returns a volume (VolumeInfo.title is a required str; authors,
\* categories and description are Optional); n is its number of names
Volumes(n) ==
    UNION {[kind : {"volume"}, title : {Some(""), Some("Dune")},
            authors : IF k = 0 THEN {None, Some(<<>>)} ELSE Lists(FetchedAuthorNames, k),
            categories : IF n = k THEN {None} ELSE Lists(FetchedCategoryNames, n - k),
            description : {None, Some("d")}] : k \in 0..n}

\* get_book_info raises: IndexError (no items), ValueError (status not 200),
\* requests.RequestException (the request itself fails)
FetchErrors == {[kind |-> "IndexError"], [kind |-> "ValueError"], [kind |-> "RequestException"]}

FetchResults(n) == IF n = 0 THEN FetchErrors \cup Volumes(0) ELSE Volumes(n)

NamesIn(res) ==
    IF res.kind # "volume" THEN 0
    ELSE (IF res.authors = None THEN 0 ELSE Len(The(res.authors)))
         + (IF res.categories = None THEN 0 ELSE Len(The(res.categories)))

\* "except (ValueError, IndexError)": the errors the import scripts catch
Caught(res) == res.kind \in {"IndexError", "ValueError"}

\* what is raised past the except clause: the fetcher's RequestException, and
\* the TypeError of ", ".join(book_data.volumeInfo.authors) when authors is None
Uncaught(res) ==
    \/ res.kind = "RequestException"
    \/ res.kind = "volume" /\ res.authors = None

\* "not flat_book_data.description or flat_book_data.description.strip() == ''"
NeedsSummary(res) == ~Truthy(res.description)

\* flatten_response(book_data, isbn=isbn), the fields add_book reads
flatten_response(res, isbn) ==
    [isbn |-> isbn, title |-> res.title, authors |-> res.authors,
     categories |-> res.categories]

\* the calls an import makes for an ISBN it does not skip, in order
CallsFor(res) ==
    <<"get_book_info">>
    \o (IF res.kind = "volume" /\ ~Uncaught(res)
        THEN (IF NeedsSummary(res) THEN <<"run_sync">> ELSE <<>>) \o <<"add_book">>
        ELSE <<>>)

\* the try block of both import scripts, from get_book_info to add_book
ImportOne(isbn, res) ==
    IF res.kind = "volume" /\ ~Uncaught(res)
    THEN LET book == flatten_response(res, isbn)
         IN \E failAt \in BookFailPoints(book) : add_book(book, failAt)
    ELSE UNCHANGED <<db, committed, nextId, result, last, hist>>

Stored(rows, isbn) == \E i \in 1..Len(rows) : rows[i].isbn = isbn

-----------------------------------------------------------------------------
(* add_books_from_isbn_list *)

NoBatch ==
    [status |-> "idle", isbn_list |-> <<>>, fetch |-> [i \in {} |-> None], pos |-> 0,
     isbn_in_df |-> {}, resumed |-> FALSE, start |-> EmptyTables, clean |-> TRUE,
     fetched |-> <<>>]

NoFlow ==
    [op |-> "none", isbn |-> <<>>, stored |-> FALSE, calls |-> <<>>,
     pre |-> EmptyTables, texts |-> {}, log |-> "none"]

\* what an import logs last for an ISBN it does not skip: "Added book ... to
\* database." after add_book, whatever add_book returned (the response is then
\* written to <isbn>.json), or "Error retrieving data ..." in the except
\* clause; nothing when the error is not caught
Logged(res) ==
    IF Caught(res) THEN "Error retrieving"
    ELSE IF Uncaught(res) THEN "none"
    ELSE "Added"

\* the query text an import script hands to run_query
Issued(site, text) == flow.texts \cup {[site |-> site, text |-> text]}

\* the fetcher as a batch and its re-runs meet it: one result per ISBN, the
\* results having at most `budget` names in all
RECURSIVE NamesOf(_, _)
NamesOf(fetch, isbns) ==
    IF isbns = {} THEN 0
    ELSE LET i == CHOOSE i \in isbns : TRUE
         IN NamesIn(fetch[i]) + NamesOf(fetch, isbns \ {i})

FetchMaps(isbns, budget) ==
    {fetch \in [isbns -> UNION {FetchResults(n) : n \in 0..budget}] :
        NamesOf(fetch, isbns) <= budget}

\* "with db:", the query "Select isbn from books" and the list made of its rows
EnterLoop(isbn_list, fetch, resumed, start) ==
    /\ batch' = [status |-> "running", isbn_list |-> isbn_list, fetch |-> fetch, pos |-> 1,
                 isbn_in_df |-> {db.books[i].isbn : i \in 1..Len(db.books)},
                 resumed |-> resumed, start |-> start,
                 clean |-> IF resumed THEN batch.clean ELSE TRUE, fetched |-> <<>>]
    /\ flow' = [NoFlow EXCEPT !.op = "add_books_from_isbn_list",
                              !.texts = Issued("add_books_from_isbn_list",
                                               <<"Select isbn from books">>)]
    /\ UNCHANGED <<db, committed, nextId, result, last, hist, enrich, conns, self>>

StartBatch ==
    /\ Idle
    /\ \E len \in 1..(MaxWork - work - 1) : \E isbn_list \in [1..len -> ISBNs] :
          \E fetch \in FetchMaps(Range(isbn_list), MaxWork - work - 1 - len) :
             /\ work' = work + 1 + len + NamesOf(fetch, Range(isbn_list))
             /\ EnterLoop(isbn_list, fetch, FALSE, committed)

\* the end of a turn of the loop; leaving the loop leaves "with db:"
NextItem(b) ==
    IF b.pos < Len(b.isbn_list) THEN [b EXCEPT !.pos = @ + 1]
    ELSE [b EXCEPT !.pos = @ + 1, !.status = "done"]

\* one turn of the loop of add_books_from_isbn_list
BatchItem ==
    /\ batch.status = "running"
    /\ UNCHANGED <<work, enrich, conns, self>>
    /\ LET isbn == batch.isbn_list[batch.pos]
           res == batch.fetch[isbn]
           step == [op |-> "item", isbn |-> isbn,
                    stored |-> Stored(committed.books, isbn),
                    calls |-> <<>>, pre |-> committed, texts |-> flow.texts,
                    log |-> "Skipping"]
       IN IF isbn \in batch.isbn_in_df
          THEN /\ flow' = step
               /\ batch' = NextItem(batch)
               /\ UNCHANGED <<db, committed, nextId, result, last, hist>>
          ELSE /\ flow' = [step EXCEPT !.calls = CallsFor(res), !.log = Logged(res)]
               /\ ImportOne(isbn, res)
               /\ LET b == [batch EXCEPT
                              !.fetched = Append(@, isbn),
                              !.clean = @ /\ ~("add_book" \in Range(CallsFor(res))
                                               /\ last'.failed)]
                  IN batch' = IF Uncaught(res) THEN [b EXCEPT !.status = "aborted"]
                              ELSE NextItem(b)

\* the process is stopped, between two items or inside an add_book before its
\* commit: the connection is gone and with it the writes not committed.
\* An import is stopped once, and once run again.
Interrupt ==
    /\ batch.status = "running"
    /\ ~batch.resumed
    /\ batch' = [batch EXCEPT !.status = "interrupted"]
    /\ UNCHANGED <<committed, result, last, hist, work, enrich, flow, conns, self>>
    /\ db' = committed
    /\ LET isbn == batch.isbn_list[batch.pos]
           res == batch.fetch[isbn]
           book == flatten_response(res, isbn)
       IN \/ UNCHANGED nextId
          \/ /\ isbn \notin batch.isbn_in_df
             /\ res.kind = "volume" /\ ~Uncaught(res) /\ HasTitle(book.title)
             /\ \E failAt \in BookFailPoints(book) \ {0} :
                   nextId' = AddBookBody(db, committed, nextId, book, failAt).nextId

\* the same list is imported again from its start, the fetcher answering as before
Resume ==
    /\ batch.status = "interrupted"
    /\ UNCHANGED work
    /\ EnterLoop(batch.isbn_list, batch.fetch, TRUE, batch.start)

-----------------------------------------------------------------------------
(* add_book_from_isbn *)

\* the body of repr() of a str that holds no quote: a backslash is doubled
RECURSIVE Escaped(_)
Escaped(str) ==
    IF str = <<>> THEN <<>>
    ELSE (IF Head(str) = "\\" THEN <<"\\", "\\">> ELSE <<Head(str)>>) \o Escaped(Tail(str))

\* f"{isbn!r}"
repr(str) == <<"'">> \o Escaped(str) \o <<"'">>

\* query = f"Select isbn from books where isbn = {isbn!r}"
IsbnQuery(isbn) == <<"Select isbn from books where isbn = ">> \o repr(isbn)

\* the string literal that ends the query, as SQLite reads it: the characters
\* between the quotes, a backslash being a character like any other
StringLiteral(query) == SubSeq(query, 3, Len(query) - 1)

\* db.run_query(query): the rows the query selects
SelectIsbn(rows, query) ==
    LET Selected(r) == r.isbn = StringLiteral(query)
    IN SelectSeq(rows, Selected)

AddBookFromIsbn ==
    /\ Idle
    /\ UNCHANGED <<enrich, batch, conns, self>>
    /\ \E isbn \in ISBNs :
        LET query == IsbnQuery(isbn)
            res_rows == SelectIsbn(db.books, query)
            step == [op |-> "add_book_from_isbn", isbn |-> isbn,
                     stored |-> Stored(committed.books, isbn),
                     calls |-> <<"run_query">>, pre |-> committed,
                     texts |-> Issued("add_book_from_isbn", query),
                     log |-> "Skipping"]
        IN IF Len(res_rows) > 0
           THEN /\ work < MaxWork
                /\ work' = work + 1
                /\ flow' = step
                /\ UNCHANGED <<db, committed, nextId, result, last, hist>>
           ELSE \E n \in 0..(MaxWork - work - 1) : \E res \in FetchResults(n) :
                   /\ work' = work + 1 + n
                   /\ flow' = [step EXCEPT !.calls = @ \o CallsFor(res),
                                            !.log = Logged(res)]
                   /\ ImportOne(isbn, res)

-----------------------------------------------------------------------------
(* add_book on two connections to one database file.  SQLite admits one     *)
(* writer: a connection's first INSERT takes the write lock and holds it up *)
(* to its commit or rollback; meanwhile the INSERT of another connection    *)
(* waits, and raises sqlite3.OperationalError ("database is locked") when   *)
(* the timeout of sqlite3.connect runs out.                                 *)

Conns == {1, 2}

NoCall ==
    [pc |-> "idle", book |-> None, book_id |-> 0, view |-> EmptyTables, result |-> None,
     error |-> "none", overlap |-> FALSE, pre |-> EmptyTables]

Other(c) == CHOOSE o \in Conns : o # c

\* the connection that holds the write lock, if any
Writers == {c \in Conns : conns[c].pc = "writing"}

\* the return of add_book
Returned(call, id, error) ==
    [call EXCEPT !.pc = "done", !.result = id, !.error = error]

\* add_book is called, once on each connection: the title is tested and the id
\* of the book drawn
RaceCall(c) ==
    /\ conns[c].pc = "idle"
    /\ UNCHANGED <<db, committed, result, last, hist, enrich, batch, flow, self>>
    /\ \E n \in 0..(MaxWork - work - 1) : \E book \in Records(n) :
          LET call == [NoCall EXCEPT !.book = Some(book), !.pre = committed,
                                     !.overlap = conns[Other(c)].pc \in {"called", "writing"}]
          IN /\ work' = work + 1 + n
             /\ IF ~HasTitle(book.title)
                THEN /\ conns' = [conns EXCEPT ![c] = Returned(call, None, "none")]
                     /\ UNCHANGED nextId
                ELSE /\ conns' = [conns EXCEPT ![c] = [call EXCEPT !.pc = "called",
                                                                   !.book_id = nextId]]
                     /\ nextId' = nextId + 1

\* the lock is free: the statements up to the commit run, on the committed tables
RaceWrite(c) ==
    /\ conns[c].pc = "called"
    /\ Writers = {}
    /\ UNCHANGED <<db, committed, result, last, hist, work, enrich, batch, flow, self>>
    /\ LET book == The(conns[c].book)
           st == Cursor(committed, committed, nextId)
       IN \E failAt \in 0..AddBookWrites(st, conns[c].book_id, book, 0).n :
            \E end \in {AddBookWrites(st, conns[c].book_id, book, failAt)} :
               /\ nextId' = end.nextId
               /\ conns' = [conns EXCEPT ![c] =
                     IF end.err THEN Returned(@, None, "storage")
                     ELSE [@ EXCEPT !.pc = "writing", !.view = end.db]]

\* self.conn.commit(), or the error it raises and the rollback
RaceCommit(c) ==
    /\ conns[c].pc = "writing"
    /\ UNCHANGED <<nextId, result, last, hist, work, enrich, batch, flow, self>>
    /\ \/ /\ committed' = conns[c].view
          /\ conns' = [conns EXCEPT ![c] = Returned(@, Some(@.book_id), "none")]
       \/ /\ committed' = Rollback(conns[c].view, committed)
          /\ conns' = [conns EXCEPT ![c] = Returned(@, None, "storage")]
    /\ db' = committed'

\* the lock is held by the other connection for longer than the timeout: the
\* INSERT of the book raises, add_book rolls back and returns None
RaceBusy(c) ==
    /\ conns[c].pc = "called"
    /\ Writers # {}
    /\ conns' = [conns EXCEPT ![c] = Returned(@, None, "locked")]
    /\ UNCHANGED <<db, committed, nextId, result, last, hist, work, enrich, batch, flow, self>>

-----------------------------------------------------------------------------
(* The life of the connection of one Database object, used by its callers   *)
(* one call at a time: connect(), disconnect(), `with db:` and the calls    *)
(* that test self.conn.                                                     *)

\* a call on the object that is neither add_book nor add_author
Lifecycle(op, o) ==
    /\ work' = work + 1
    /\ self' = o
    /\ last' = Call(op, None, None, Cursor(db, committed, nextId))
    /\ UNCHANGED <<db, committed, nextId, result, hist, enrich, batch, flow, conns>>

Connect ==
    /\ work < MaxWork
    /\ Lifecycle("connect", connect(self))

Disconnect ==
    /\ work < MaxWork
    /\ Lifecycle("disconnect", disconnect(self))

\* __enter__: self.connect()
Enter(c) ==
    /\ work < MaxWork
    /\ c \notin self.inside
    /\ Lifecycle("__enter__", [connect(self) EXCEPT !.inside = @ \cup {c}])

\* __exit__: self.disconnect()
Exit(c) ==
    /\ work < MaxWork
    /\ c \in self.inside
    /\ Lifecycle("__exit__", [disconnect(self) EXCEPT !.inside = @ \ {c}])

\* a connection that self.conn no longer refers to is closed when the
\* interpreter finalizes it: at once, later or never
Finalize ==
    /\ \E id \in self.open \ self.conn : self' = [self EXCEPT !.open = @ \ {id}]
    /\ UNCHANGED <<db, committed, nextId, result, last, hist, work, enrich, batch, flow, conns>>

\* run_query("Select isbn from books"): None without a connection, else the
\* list of the rows
RunQuery ==
    /\ work < MaxWork
    /\ Lifecycle("run_query",
                 [self EXCEPT !.rows =
                     IF self.conn = None THEN None
                     ELSE Some([i \in 1..Len(db.books) |-> [isbn |-> db.books[i].isbn]])])

-----------------------------------------------------------------------------
(* Embeddings of the book descriptions *)

\* List[float]
Vectors == { <<1>>, <<2, 3>> }

ModelNames == {"default", "m"}

\* pickle.dumps of a list: a header that gives its length, then its items
dumps(vector) == <<"pickle", Len(vector)>> \o vector

\* pickle.loads: the items the header announces
loads(blob) == SubSeq(blob, 3, 2 + blob[2])

\* "INSERT INTO book_embeddings ... ON CONFLICT(book_id, model_name) DO UPDATE
\* SET vector=excluded.vector": the row of the pair is written, or added
Upsert(st, row, failAt) ==
    LET s1 == Execute(st, failAt)
        rows == s1.db.book_embeddings
        SamePair(r) == r.book_id = row.book_id /\ r.model_name = row.model_name
    IN IF s1.err THEN s1
       ELSE IF \E k \in 1..Len(rows) : SamePair(rows[k])
            THEN [s1 EXCEPT !.db.book_embeddings =
                      [k \in 1..Len(rows) |-> IF SamePair(rows[k]) THEN row ELSE rows[k]]]
            ELSE [s1 EXCEPT !.db.book_embeddings = Append(rows, row)]

\* the try block of add_book_embedding
AddBookEmbeddingBody(tables, stored, id, args, failAt) ==
    LET vector_blob == dumps(args.embedding_vector)
        row == [book_id |-> args.book_id, model_name |-> args.model_name,
                vector |-> vector_blob]
        s1 == Upsert(Cursor(tables, stored, id), row, failAt)
    IN IF s1.err THEN s1 ELSE CommitNow(s1, failAt)

\* book_id as callers pass it: the id of a stored book or one of their own
BookIdArgs == CallerIds \cup {db.books[i].id : i \in 1..Len(db.books)}

\* add_book_embedding returns nothing; on sqlite3.Error it rolls back
AddBookEmbedding ==
    /\ Idle
    /\ work < MaxWork
    /\ work' = work + 1
    /\ UNCHANGED <<nextId, result, hist, flows>>
    /\ \E args \in [book_id : BookIdArgs, embedding_vector : Vectors,
                     model_name : ModelNames] :
          IF self.conn = None
          THEN /\ last' = Call("add_book_embedding", None, Some(args),
                               Cursor(db, committed, nextId))
               /\ UNCHANGED <<db, committed>>
          ELSE \E failAt \in 0..2 :
               \E end \in {AddBookEmbeddingBody(db, committed, nextId, args, failAt)} :
                  /\ last' = Call("add_book_embedding", None, Some(args), end)
                  /\ committed' = end.durable
                  /\ db' = IF end.err THEN Rollback(end.db, end.durable) ELSE end.db

\* "SELECT book_id, vector FROM <table> WHERE model_name = ?": the rows, or
\* sqlite3.OperationalError (None here) when the database has no such table
SelectVectors(tables, table, model_name) ==
    IF table \notin DOMAIN tables THEN None
    ELSE LET OfModel(r) == r.model_name = model_name
         IN Some(SelectSeq(tables[table], OfModel))

\* get_embeddings(model_name, as_dataframe=False): the SELECT names the table
\* "embeddings"; an error returns None, no row the empty dict, and rows the
\* dict {book_id: pickle.loads(vector_blob)}
get_embeddings(tables, model_name) ==
    LET rows == SelectVectors(tables, "embeddings", model_name)
        ids == {The(rows)[k].book_id : k \in 1..Len(The(rows))}
        Blob(id) == The(rows)[CHOOSE k \in 1..Len(The(rows)) :
                                  /\ The(rows)[k].book_id = id
                                  /\ \A j \in 1..Len(The(rows)) :
                                        The(rows)[j].book_id = id => j <= k].vector
    IN IF rows = None THEN None
       ELSE Some([id \in ids |-> loads(Blob(id))])

GetEmbeddings ==
    /\ Idle
    /\ work < MaxWork
    /\ work' = work + 1
    /\ UNCHANGED <<db, committed, nextId, result, hist, enrich, batch, flow, conns>>
    /\ \E model_name \in ModelNames :
          /\ last' = Call("get_embeddings", None, Some([model_name |-> model_name]),
                          Cursor(db, committed, nextId))
          /\ self' = [self EXCEPT !.rows =
                         IF self.conn = None THEN None ELSE get_embeddings(db, model_name)]

-----------------------------------------------------------------------------
(* Database.__init__ on a new file: create_db has run, the tables are empty *)

Init ==
    /\ db = EmptyTables
    /\ committed = EmptyTables
    /\ nextId = 1
    /\ result = None
    /\ last = [op |-> "init", title |-> None, args |-> None,
               failed |-> FALSE, stmts |-> 0, pre |-> EmptyTables]
    /\ hist = <<>>
    /\ work = 0
    /\ enrich = NoEnrich
    /\ batch = NoBatch
    /\ flow = NoFlow
    /\ conns = [c \in Conns |-> NoCall]
    /\ self = Constructed

NextBooks == AddBook

\* the import flow alone: any sequence of add_book calls
SpecBooks == Init /\ [][NextBooks]_vars

Next == AddBook \/ AddAuthor

\* imports and enrichments in any order
Spec == Init /\ [][Next]_vars

NextRace == \E c \in Conns : RaceCall(c) \/ RaceWrite(c) \/ RaceCommit(c) \/ RaceBusy(c)

\* add_book calls of two connections, interleaved
SpecRace == Init /\ [][NextRace]_vars

NextSingle == AddBookFromIsbn

\* imports of one ISBN at a time
SpecSingle == Init /\ [][NextSingle]_vars

NextBatch == StartBatch \/ BatchItem \/ Interrupt \/ Resume

\* batch imports, stopped and run again
SpecBatch == Init /\ [][NextBatch]_vars

NextEmbed == AddBook \/ AddBookEmbedding \/ GetEmbeddings

\* imports, and embeddings stored and read back
SpecEmbed == Init /\ [][NextEmbed]_vars

NextObject ==
    \/ Connect \/ Disconnect
    \/ \E c \in Callers : Enter(c) \/ Exit(c)
    \/ RunQuery \/ AddBook \/ AddAuthor

\* the calls on one Database object, in any order
SpecObject == Init /\ [][NextObject]_vars

NextShared ==
    \/ Connect \/ Disconnect \/ Finalize
    \/ \E c \in Callers : Enter(c) \/ Exit(c)
    \/ RunQuery

\* the connection of a Database object that two callers share
SpecShared == Init /\ [][NextShared]_vars

NextEnrich == AddBook \/ StartPopulate \/ PopulateAuthor

\* imports followed by runs of the enrichment pass
SpecEnrich == Init /\ [][NextEnrich]_vars

-----------------------------------------------------------------------------
(* Vocabulary of the properties *)

Names(o) == IF o = None THEN {} ELSE Range(The(o))

\* the names submitted in the records of the add_book calls that returned an id
SubmittedAuthors == UNION {Names(hist[i].book.authors) : i \in 1..Len(hist)}
SubmittedCategories == UNION {Names(hist[i].book.categories) : i \in 1..Len(hist)}

Indices(rows, P(_)) == {k \in 1..Len(rows) : P(rows[k])}

NoDuplicateRow(rows) == \A i, j \in 1..Len(rows) : rows[i] = rows[j] => i = j

\* the last call was an add_book that returned the id of the last entry of hist
AddBookReturnedId ==
    /\ last.op = "add_book"
    /\ result # None
    /\ hist # <<>>
    /\ result = Some(hist[Len(hist)].id)

-----------------------------------------------------------------------------
(* C1: after any sequence of add_book calls the authors table has as many   *)
(* rows as there are distinct trimmed author names in the records that were *)
(* committed, and every submitted name is linked, for its book, to the row  *)
(* of its trimmed name: " a" and "a" share one Author id, "a" and "A" have  *)
(* different rows.                                                          *)
C1_OneAuthorPerTrimmedName ==
    LET rows == committed.authors
        links == Range(committed.book_authors)
    IN /\ Len(rows) = Cardinality({strip(n) : n \in SubmittedAuthors})
       /\ \A i \in 1..Len(hist) : \A n \in Names(hist[i].book.authors) :
            \E k \in 1..Len(rows) :
                /\ rows[k].name = strip(n)
                /\ [book_id |-> hist[i].id, author_id |-> rows[k].id] \in links

\* two committed records, one naming " a" and the other "a", share one Author row
C1_Witness ==
    /\ Len(hist) = 2
    /\ hist[1].book.authors = Some(<< <<" ", "a">> >>)
    /\ hist[2].book.authors = Some(<< <<"a">> >>)
    /\ Len(committed.authors) = 1
    /\ Len(committed.book_authors) = 2

(* C2: after any sequence of add_book calls there is exactly one Category   *)
(* row per distinct trimmed category name, and every submitted name is      *)
(* linked to the row of its trimmed name.                                   *)
C2_OneCategoryPerTrimmedName ==
    LET rows == committed.categories
        links == Range(committed.book_categories)
    IN /\ Len(rows) = Cardinality({strip(n) : n \in SubmittedCategories})
       /\ \A i \in 1..Len(hist) : \A n \in Names(hist[i].book.categories) :
            \E k \in 1..Len(rows) :
                /\ rows[k].name = strip(n)
                /\ [book_id |-> hist[i].id, category_id |-> rows[k].id] \in links

(* C3: no Author or Category row has a name that is empty after trimming    *)
(* (so that no link row can point to such an entry).                        *)
C3_NoEmptyNameStored ==
    /\ \A k \in 1..Len(committed.authors) : strip(committed.authors[k].name) # <<>>
    /\ \A k \in 1..Len(committed.categories) : strip(committed.categories[k].name) # <<>>

(* C4: the books table holds exactly one row per ISBN of the add_book calls *)
(* that returned an id, and that row is the one of the first such call for  *)
(* the ISBN (its id and its title).                                         *)
C4_OneBookPerIsbn ==
    LET rows == committed.books
        added == {hist[i].book.isbn : i \in 1..Len(hist)}
        First(isbn) ==
            hist[CHOOSE i \in 1..Len(hist) :
                    /\ hist[i].book.isbn = isbn
                    /\ \A j \in 1..Len(hist) : hist[j].book.isbn = isbn => i <= j]
    IN /\ Len(rows) = Cardinality(added)
       /\ \A isbn \in added :
            \E k \in 1..Len(rows) :
                rows[k] = [id |-> First(isbn).id, title |-> First(isbn).book.title,
                           isbn |-> isbn]

\* two add_book calls with the same ISBN have both returned an id
C4_Witness ==
    /\ Len(hist) = 2
    /\ hist[1].book.isbn = hist[2].book.isbn
    /\ Len(committed.books) = 1

(* C5: after a successful add_book of an ISBN that was not stored, the book *)
(* has as many Book-Author links as its record has distinct trimmed author  *)
(* names and as many Book-Category links as it has distinct category names; *)
(* each of these names has exactly one entity row; no link table holds a    *)
(* pair twice.                                                              *)
C5_LinksPerBook ==
    /\ NoDuplicateRow(committed.book_authors)
    /\ NoDuplicateRow(committed.book_categories)
    /\ AddBookReturnedId =>
         LET h == hist[Len(hist)]
             OfBook(l) == l.book_id = h.id
             new == \A k \in 1..Len(last.pre.books) : last.pre.books[k].isbn # h.book.isbn
         IN new =>
             /\ Cardinality(Indices(committed.book_authors, OfBook))
                  = Cardinality({strip(n) : n \in Names(h.book.authors)})
             /\ Cardinality(Indices(committed.book_categories, OfBook))
                  = Cardinality(Names(h.book.categories))
             /\ \A n \in Names(h.book.authors) :
                  LET Named(a) == a.name = strip(n)
                  IN Cardinality(Indices(committed.authors, Named)) = 1
             /\ \A n \in Names(h.book.categories) :
                  LET Named(c) == c.name = n
                  IN Cardinality(Indices(committed.categories, Named)) = 1

\* a new ISBN was added with one author name given twice and one category given twice
C5_Witness ==
    /\ AddBookReturnedId
    /\ Len(committed.books) = Len(last.pre.books) + 1
    /\ \E n \in AuthorNames : hist[Len(hist)].book.authors = Some(<<n, n>>)
    /\ Len(committed.book_authors) = Len(last.pre.book_authors) + 1

(* C6: add_book of a record whose title is None or "" returns None and      *)
(* leaves every table as it was, with nothing pending on the connection;    *)
(* no stored Book row has a missing or empty title.                         *)
C6_NoTitleNoWrite ==
    /\ (last.op = "add_book" /\ ~Truthy(last.title)) =>
          /\ result = None
          /\ committed = last.pre
          /\ db = last.pre
    /\ \A k \in 1..Len(committed.books) : Truthy(committed.books[k].title)

\* a record with an empty title was refused by a database that holds a book
C6_Witness ==
    /\ last.op = "add_book"
    /\ last.title = Some("")
    /\ result = None
    /\ Len(committed.books) = 1

(* C7: when a statement of add_book raises after the Book insert, the call  *)
(* returns None, the committed tables are those before the call and the     *)
(* connection holds no write of the call: no Book, Author, Category or link *)
(* row of the failed call can persist.                                      *)
C7_AllOrNothing ==
    (last.op = "add_book" /\ last.failed) =>
        /\ result = None
        /\ committed = last.pre
        /\ db = last.pre

\* the storage failed on a link or on the commit, after the book and an author
\* had been inserted, in a database that already held a book
C7_Witness ==
    /\ last.op = "add_book"
    /\ last.failed
    /\ last.stmts >= 4
    /\ nextId >= 4
    /\ Len(committed.books) = 1

-----------------------------------------------------------------------------
(* Vocabulary of the add_author properties *)

\* the row with the given id, in a table where ids are unique
RowWithId(rows, id) == rows[CHOOSE k \in 1..Len(rows) : rows[k].id = id]

HasId(rows, id) == \E k \in 1..Len(rows) : rows[k].id = id

\* the last call was an add_author that returned the id of an author stored before it
AddAuthorUpdated ==
    /\ last.op = "add_author"
    /\ result # None
    /\ HasId(last.pre.authors, The(result))

\* the id or the name passed to the last add_author matched a stored author
AddAuthorMatched ==
    LET args == The(last.args)
    IN \E k \in 1..Len(last.pre.authors) :
          \/ args.author_id = Some(last.pre.authors[k].id)
          \/ args.name = last.pre.authors[k].name

(* C8: add_author on an existing author never replaces a non-null field by  *)
(* null (whether it succeeds or fails); when it returns the author's id,    *)
(* every biographical field passed as None keeps its stored value and every *)
(* field passed non-null whose stored value is null holds the passed value. *)
C8_MergeKeepsAndFills ==
    /\ last.op = "add_author" =>
         \A k \in 1..Len(last.pre.authors) :
            LET old == last.pre.authors[k]
            IN /\ HasId(committed.authors, old.id)
               /\ \A f \in BioFields :
                    old[f] # None => RowWithId(committed.authors, old.id)[f] # None
    /\ AddAuthorUpdated =>
         LET old == RowWithId(last.pre.authors, The(result))
             new == RowWithId(committed.authors, The(result))
             passed == The(last.args).bio
         IN \A f \in BioFields :
              /\ passed[f] = None => new[f] = old[f]
              /\ (passed[f] # None /\ old[f] = None) => new[f] = passed[f]

\* an author with a non-null field was given another field, which was null
C8_Witness ==
    /\ AddAuthorUpdated
    /\ LET old == RowWithId(last.pre.authors, The(result))
           new == RowWithId(committed.authors, The(result))
           passed == The(last.args).bio
       IN \E f, g \in BioFields :
            /\ old[f] # None /\ passed[f] = None /\ new[f] = old[f]
            /\ old[g] = None /\ passed[g] # None /\ new[g] = passed[g]

-----------------------------------------------------------------------------
(* C11: add_author on an existing author with every biographical field     *)
(* None, when the storage does not fail, returns the id of that author and  *)
(* leaves the authors table, names included, as it was.                     *)
C11_NoOpReportsSuccess ==
    (/\ last.op = "add_author"
     /\ ~last.failed
     /\ The(last.args).bio = NoBio
     /\ AddAuthorMatched) =>
        /\ result # None
        /\ HasId(last.pre.authors, The(result))
        /\ committed.authors = last.pre.authors

-----------------------------------------------------------------------------
(* Vocabulary of the populate_authors properties *)

\* populate_authors has run twice in succession and the second run is over
\* and no call was made since
RanTwice == enrich.status = "done" /\ enrich.run = 2 /\ enrich.at = work

\* a row with the non-null fields of an answer written over its own
Overwritten(row, info) ==
    [c \in DOMAIN row |->
        IF c \in BioFields /\ info[c] # None THEN info[c] ELSE row[c]]

\* the answers recorded for the author with the given id
AnswersFor(id) == {k \in 1..Len(enrich.looked) : enrich.looked[k].id = id}

-----------------------------------------------------------------------------
(* Vocabulary of the two-connection properties *)

NamesStored(rows) == {rows[k].name : k \in 1..Len(rows)}

\* the author names, trimmed, that the books of both calls carry and that no
\* Author row had when either call was made; the same for category names
SharedNewAuthors ==
    LET Of(c) == {strip(n) : n \in Names(The(conns[c].book).authors)}
                    \ NamesStored(conns[c].pre.authors)
    IN Of(1) \cap Of(2)

SharedNewCategories ==
    LET Of(c) == Names(The(conns[c].book).categories) \ NamesStored(conns[c].pre.categories)
    IN Of(1) \cap Of(2)

\* both calls have returned, one was made while the other was in progress, both
\* had a title and a name in common that was not stored, and the storage
\* failed on neither
RacedOnAName ==
    /\ \A c \in Conns :
          /\ conns[c].pc = "done"
          /\ conns[c].error # "storage"
          /\ HasTitle(The(conns[c].book).title)
    /\ \E c \in Conns : conns[c].overlap
    /\ SharedNewAuthors \cup SharedNewCategories # {}

-----------------------------------------------------------------------------
(* Vocabulary of the batch import properties *)

\* the import of a list from its start to its end or to the error that ends it,
\* not stopped and the storage not failing: the tables it leaves
RECURSIVE RunFrom(_, _, _, _, _, _)
RunFrom(tables, id, isbn_in_df, isbn_list, fetch, pos) ==
    IF pos > Len(isbn_list) THEN tables
    ELSE LET isbn == isbn_list[pos]
             res == fetch[isbn]
             book == flatten_response(res, isbn)
             end == AddBookBody(tables, tables, id, book, 0)
         IN IF isbn \in isbn_in_df \/ Caught(res)
            THEN RunFrom(tables, id, isbn_in_df, isbn_list, fetch, pos + 1)
            ELSE IF Uncaught(res) THEN tables
            ELSE IF ~HasTitle(book.title)
                 THEN RunFrom(tables, id, isbn_in_df, isbn_list, fetch, pos + 1)
                 ELSE RunFrom(end.durable, end.nextId, isbn_in_df, isbn_list, fetch, pos + 1)

\* the one uninterrupted run of the batch, from the tables it first met
Uninterrupted ==
    RunFrom(batch.start, nextId,
            {batch.start.books[i].isbn : i \in 1..Len(batch.start.books)},
            batch.isbn_list, batch.fetch, 1)

\* tables up to the choice of the generated ids: books by ISBN and title,
\* authors and categories by name, links by the ISBN of the book (None when no
\* book has the id) and the name of the entity; the number of rows of each
Shape(t) ==
    LET BookKey(id) == IF HasId(t.books, id) THEN Some(RowWithId(t.books, id).isbn)
                       ELSE None
    IN [books |-> {[isbn |-> r.isbn, title |-> r.title] : r \in Range(t.books)},
        authors |-> {r.name : r \in Range(t.authors)},
        categories |-> {r.name : r \in Range(t.categories)},
        book_authors |-> {<<BookKey(l.book_id), RowWithId(t.authors, l.author_id).name>> :
                              l \in Range(t.book_authors)},
        book_categories |->
            {<<BookKey(l.book_id), RowWithId(t.categories, l.category_id).name>> :
                 l \in Range(t.book_categories)},
        rows |-> [x \in DOMAIN t |-> Len(t[x])]]

(* C14: in add_books_from_isbn_list, once the add_book of an item has       *)
(* returned an id, the Book row of its ISBN, the Author and Category rows   *)
(* of its names and its link rows are committed and stay so whatever        *)
(* happens to a later item: a fetch that fails, a storage failure and its   *)
(* rollback, the batch ending on an error or being stopped.                 *)
C14_ItemsStayCommitted ==
    \A i \in 1..Len(hist) :
        LET h == hist[i]
        IN /\ Stored(committed.books, h.book.isbn)
           /\ \A n \in Names(h.book.authors) :
                \E k \in 1..Len(committed.authors) :
                    /\ committed.authors[k].name = strip(n)
                    /\ [book_id |-> h.id, author_id |-> committed.authors[k].id]
                          \in Range(committed.book_authors)
           /\ \A n \in Names(h.book.categories) :
                \E k \in 1..Len(committed.categories) :
                    /\ committed.categories[k].name = n
                    /\ [book_id |-> h.id, category_id |-> committed.categories[k].id]
                          \in Range(committed.book_categories)

\* the first item was added with an author, and the batch ended on the error
\* of a later item, was stopped, or had the storage fail on a later item
C14_Witness ==
    /\ Len(hist) = 1
    /\ Names(hist[1].book.authors) # {}
    /\ batch.pos >= 2
    /\ \/ batch.status \in {"aborted", "interrupted"}
       \/ last.failed

(* C15: a failure of one item does not end add_books_from_isbn_list: after  *)
(* a fetch that fails (not found, rate limit, transport), a fetched record  *)
(* without authors or an add_book that reports a storage failure, the loop  *)
(* goes on with the next item; no batch ends on an error.                   *)
C15_FailureIsNotFatal ==
    /\ batch.status # "aborted"
    /\ (flow.op = "item" /\ batch.status # "interrupted") =>
          \/ batch.status = "running" /\ batch.pos <= Len(batch.isbn_list)
          \/ batch.status = "done" /\ batch.pos = Len(batch.isbn_list) + 1

(* C16: a batch import that is stopped and then run again from the start    *)
(* with the same list and the same fetch results ends with the tables that  *)
(* one uninterrupted run leaves, up to the choice of the generated ids.     *)
C16_ResumeIsIdempotent ==
    (/\ batch.resumed
     /\ batch.status \in {"done", "aborted"}
     /\ batch.clean) =>
        Shape(committed) = Shape(Uninterrupted)

(* C17: when add_book_from_isbn is given an ISBN that is stored, it makes   *)
(* no call after its query (no fetch, no summary, no add_book) and leaves   *)
(* the database as it was.                                                  *)
C17_DuplicateCheckFirst ==
    (flow.op = "add_book_from_isbn" /\ flow.stored) =>
        /\ flow.calls = <<"run_query">>
        /\ committed = flow.pre
        /\ db = flow.pre

(* C18: in add_books_from_isbn_list an ISBN that is stored when its item is *)
(* processed is skipped, no call made and no table changed; an ISBN that    *)
(* occurs more than once in the list is fetched at most once.               *)
C18_StoredIsSkipped ==
    /\ (flow.op = "item" /\ flow.stored) =>
          /\ flow.calls = <<>>
          /\ committed = flow.pre
    /\ \A i, j \in 1..Len(batch.fetched) :
          batch.fetched[i] = batch.fetched[j] => i = j

(* C19: the text of a query does not depend on the ISBN it filters by: the *)
(* texts that one place of the import scripts has handed to run_query, over *)
(* all its calls, are one and the same.                                     *)
C19_QueryTextIsFixed ==
    \A q1, q2 \in flow.texts : q1.site = q2.site => q1.text = q2.text

-----------------------------------------------------------------------------
(* C20: whenever add_book returns an id, the committed books table holds a  *)
(* row with that id; whenever the call added no Book row, it returns None.  *)
C20_ReturnedIdHasBookRow ==
    last.op = "add_book" =>
        /\ result # None => HasId(committed.books, The(result))
        /\ Len(committed.books) = Len(last.pre.books) => result = None

-----------------------------------------------------------------------------
(* C21: whenever add_book or add_author has returned, with an id or with    *)
(* None, the connection holds no write that is not committed; a call that   *)
(* failed has committed nothing, so that no later commit can persist its    *)
(* partial work.                                                            *)
C21_NothingPending ==
    last.op \in {"add_book", "add_author"} =>
        /\ db = committed
        /\ last.failed => committed = last.pre

\* an add_author call failed on a database that holds a book and its author
C21_Witness ==
    /\ last.op = "add_author"
    /\ last.failed
    /\ result = None
    /\ Len(committed.books) = 1
    /\ Len(committed.authors) = 1

(* C22: after any sequence of add_book and add_author calls every stored    *)
(* Author name is equal to its own trim and no two Author rows have the     *)
(* same trimmed name.                                                       *)
C22_AuthorNamesTrimmedAndUnique ==
    LET rows == committed.authors
    IN /\ \A k \in 1..Len(rows) : rows[k].name = strip(rows[k].name)
       /\ \A i, j \in 1..Len(rows) :
            strip(rows[i].name) = strip(rows[j].name) => i = j

-----------------------------------------------------------------------------
(* C23: a Database object owns a single connection: after any sequence of   *)
(* construction, connect, disconnect and `with db:` enter and exit at most  *)
(* one connection opened by the object is open.                             *)
C23_SingleConnection == Cardinality(self.open) <= 1

-----------------------------------------------------------------------------
(* C28: a Database without a connection performs no work.  After            *)
(* construction, connect() and __enter__ the object has a connection; after *)
(* disconnect() and __exit__ it has none; a run_query, add_book or          *)
(* add_author made without a connection returns None and leaves the tables  *)
(* unchanged, and a run_query made with one returns the rows.               *)
C28_NoConnectionNoWork ==
    /\ last.op \in {"init", "connect", "__enter__"} => self.conn # None
    /\ last.op \in {"disconnect", "__exit__"} => self.conn = None
    /\ (last.op \in {"run_query", "add_book", "add_author"} /\ self.conn = None) =>
          /\ IF last.op = "run_query" THEN self.rows = None ELSE result = None
          /\ ~last.failed
          /\ committed = last.pre
          /\ db = last.pre
    /\ (last.op = "run_query" /\ self.conn # None) =>
          /\ self.rows # None
          /\ Len(The(self.rows)) = Len(committed.books)

\* add_book was called with a titled record on a disconnected object that
\* holds a book, and returned None
C28_Witness ==
    /\ last.op = "add_book"
    /\ Truthy(last.title)
    /\ self.conn = None
    /\ result = None
    /\ Len(committed.books) = 1

-----------------------------------------------------------------------------
(* C29: when the callers share one Database object, a caller that is inside *)
(* its `with db:` block has an open connection, whatever blocks the other   *)
(* callers enter or leave meanwhile.                                        *)
C29_InsideBlockConnected ==
    (last.op \in {"__enter__", "__exit__"} /\ self.inside # {}) =>
        /\ self.conn # None
        /\ self.conn \subseteq self.open

-----------------------------------------------------------------------------
(* C24: the import flow classifies every item as processed, skipped or      *)
(* failed: an item whose add_book returned None (storage failure or missing *)
(* title) is not reported or recorded as added.                             *)
C24_FailedIsNotAdded ==
    (flow.op = "item" /\ "add_book" \in Range(flow.calls) /\ result = None) =>
        flow.log # "Added"

-----------------------------------------------------------------------------
(* C25: referential integrity holds in every reachable state: each          *)
(* book_authors row references a stored Book and a stored Author, each      *)
(* book_categories row a stored Book and a stored Category, also after      *)
(* add_book of an ISBN that is already stored.                              *)
C25_LinksReferenceRows ==
    /\ \A k \in 1..Len(committed.book_authors) :
          /\ HasId(committed.books, committed.book_authors[k].book_id)
          /\ HasId(committed.authors, committed.book_authors[k].author_id)
    /\ \A k \in 1..Len(committed.book_categories) :
          /\ HasId(committed.books, committed.book_categories[k].book_id)
          /\ HasId(committed.categories, committed.book_categories[k].category_id)

-----------------------------------------------------------------------------
(* C26: add_book only inserts: every Book, Author and Category row stored   *)
(* before the call has the same field values after it, and an Author row    *)
(* the call creates has only its id and its name populated.                 *)
C26_AddBookOnlyInserts ==
    last.op = "add_book" =>
        /\ \A t \in {"books", "authors", "categories"} :
              /\ Len(last.pre[t]) <= Len(committed[t])
              /\ \A k \in 1..Len(last.pre[t]) : committed[t][k] = last.pre[t][k]
        /\ \A k \in (Len(last.pre.authors) + 1)..Len(committed.authors) :
              \A f \in BioFields : committed.authors[k][f] = None

\* add_book has linked its book to an author stored before with a non-null
\* field, and returned the id
C26_Witness ==
    /\ AddBookReturnedId
    /\ \E k \in 1..Len(last.pre.authors) :
          /\ \E f \in BioFields : last.pre.authors[k][f] # None
          /\ [book_id |-> The(result), author_id |-> last.pre.authors[k].id]
                \in Range(committed.book_authors)

-----------------------------------------------------------------------------
(* C27: with two concurrent add_book callers on separate connections the    *)
(* committed state never holds two Author rows or two Category rows with    *)
(* the same name, nor two Book rows with the same ISBN.                     *)
C27_UniqueUnderRace ==
    /\ \A i, j \in 1..Len(committed.authors) :
          committed.authors[i].name = committed.authors[j].name => i = j
    /\ \A i, j \in 1..Len(committed.categories) :
          committed.categories[i].name = committed.categories[j].name => i = j
    /\ \A i, j \in 1..Len(committed.books) :
          committed.books[i].isbn = committed.books[j].isbn => i = j

\* two calls in progress at the same time, with the same ISBN and a new name in
\* common, have both returned an id
C27_Witness ==
    /\ RacedOnAName
    /\ \A c \in Conns : conns[c].result # None
    /\ The(conns[1].book).isbn = The(conns[2].book).isbn
    /\ Len(committed.books) = 1

-----------------------------------------------------------------------------
(* C30: embedding storage round-trips: after add_book_embedding(book_id,    *)
(* vector, model_name) has succeeded the pair has one row, which holds that *)
(* vector, and get_embeddings(model_name) returns a mapping with one entry  *)
(* per book that has an embedding for the model, the vector written last.   *)
C30_EmbeddingRoundTrip ==
    LET rows == committed.book_embeddings
    IN /\ (last.op = "add_book_embedding" /\ ~last.failed) =>
             LET args == The(last.args)
                 OfPair(r) == r.book_id = args.book_id /\ r.model_name = args.model_name
             IN /\ Cardinality(Indices(rows, OfPair)) = 1
                /\ \A k \in Indices(rows, OfPair) :
                      loads(rows[k].vector) = args.embedding_vector
       /\ last.op = "get_embeddings" =>
             LET OfModel(r) == r.model_name = The(last.args).model_name
                 stored == Indices(rows, OfModel)
             IN /\ self.rows # None
                /\ DOMAIN The(self.rows) = {rows[k].book_id : k \in stored}
                /\ \A k \in stored : The(self.rows)[rows[k].book_id] = loads(rows[k].vector)

====
